---- MODULE Spec2Model ----
(***************************************************************************)
(* Model of src/main.py: the Streamlit traffic simulation.  One script run *)
(* (one interaction cycle) is one action.  The graph G is the cached       *)
(* resource of init_graph and lives across runs; vehicle_index lives in    *)
(* the session state; path and cost are the script globals of the last     *)
(* run, which are the values the figure of that run shows; crashed tells   *)
(* whether that run stopped at the IndexError of line 150; event names the *)
(* widget that started the run and the branch its handler took.            *)
(*                                                                         *)
(* Numbers.  Edge weights are kept in hundredths (the code rounds them to  *)
(* two decimals), congestion levels in units of 1/CongMax, fluctuation     *)
(* factors in percent.  float('inf') is the saturating value Inf.          *)
(***************************************************************************)
EXTENDS Integers, Sequences, FiniteSets, TLC

\* ------------------------------------------------------------------ bounds
MaxUpdates == 2         \* update_traffic passes in one explored session (Spec)
MaxLongUpdates == 22    \* update_traffic passes in the long session (SpecLong)
MaxLongResets == 1      \* Reset Vehicle clicks in the long session (SpecLong)

\* ------------------------------------------------------- program constants
CongMax == 10000        \* 1.0, the cap of congestion_level
CongStep == 500         \* 0.05
DecayPct == 95          \* 0.95
FluctMin == 90          \* random.uniform(0.9, 1.2), lower end
FluctMax == 120         \* random.uniform(0.9, 1.2), upper end
BaseMin == 5            \* random.randint(5, 15), lower end
BaseMax == 15           \* random.randint(5, 15), upper end
Inf == 1000000000       \* float('inf')

\* ------------------------------------------------------------------- graph
Nodes == {"A", "B", "C", "D", "E"}

\* G.edges() in iteration order
EdgeList ==
  << <<"A", "B">>, <<"A", "C">>, <<"B", "C">>, <<"B", "D">>,
     <<"C", "D">>, <<"C", "E">>, <<"D", "E">> >>

Edges == {EdgeList[i] : i \in 1..Len(EdgeList)}

\* G._adj[v] in insertion order
Succ(v) == SelectSeq(EdgeList, LAMBDA e : e[1] = v)

Min(a, b) == IF a <= b THEN a ELSE b
Max(a, b) == IF a >= b THEN a ELSE b

\* float addition with float('inf')
Add(a, b) == IF a = Inf \/ b = Inf THEN Inf ELSE a + b

VARIABLES base_weight, weight, open, congestion_level,
          source, target, vehicle_index, path, cost, crashed,
          event, updates, resets

vars == <<base_weight, weight, open, congestion_level,
          source, target, vehicle_index, path, cost, crashed,
          event, updates, resets>>

graph == <<base_weight, weight, open, congestion_level>>

\* ---------------------------------------------------------------- planner
\* mutant: the planner reads base_weight instead of weight
EdgeCostFromBase(w, e) == base_weight[e]

\* the cost the planner reads for an edge: data['weight']
EdgeCost(w, e) == w[e]

\* the inner loop of Dijkstra over the successors of v
RECURSIVE Relax(_, _, _, _)
Relax(st, v, out, w) ==
  IF out = <<>> THEN st
  ELSE LET u == Head(out)[2]
           vu_dist == Add(st.dist[v], EdgeCost(w, Head(out)))
           st2 == IF u \in DOMAIN st.dist THEN st
                  ELSE IF u \notin DOMAIN st.seen \/ vu_dist < st.seen[u]
                  THEN [st EXCEPT !.seen = (u :> vu_dist) @@ @,
                                  !.fringe = @ \cup {<<vu_dist, st.c, u>>},
                                  !.c = @ + 1,
                                  !.paths = (u :> Append(st.paths[v], u)) @@ @]
                  ELSE st
       IN Relax(st2, v, Tail(out), w)

\* the heap loop of Dijkstra, stopping when the target is popped
RECURSIVE DijkstraLoop(_, _, _)
DijkstraLoop(st, t, w) ==
  IF st.fringe = {} THEN st
  ELSE LET top == CHOOSE x \in st.fringe : \A y \in st.fringe :
                      x[1] < y[1] \/ (x[1] = y[1] /\ x[2] <= y[2])
           v == top[3]
           rest == [st EXCEPT !.fringe = @ \ {top}]
       IN IF v \in DOMAIN st.dist THEN DijkstraLoop(rest, t, w)
          ELSE LET st1 == [rest EXCEPT !.dist = (v :> top[1]) @@ @]
               IN IF v = t THEN st1
                  ELSE DijkstraLoop(Relax(st1, v, Succ(v), w), t, w)

Dijkstra(w, s, t) ==
  DijkstraLoop([dist |-> <<>>, seen |-> (s :> 0), fringe |-> {<<0, 0, s>>},
                c |-> 1, paths |-> (s :> <<s>>)], t, w)

\* get_shortest_path(G, source, target): (path, cost), or ([], inf) when
\* the library raises NetworkXNoPath
get_shortest_path(w, s, t) ==
  LET st == Dijkstra(w, s, t)
  IN IF t \in DOMAIN st.dist
     THEN [path |-> st.paths[t], cost |-> st.dist[t]]
     ELSE [path |-> <<>>, cost |-> Inf]

\* ---------------------------------------------------------- update_traffic
used_edges(p) == {<<p[i], p[i + 1]>> : i \in 1..(Len(p) - 1)}

\* c * 0.95, rounded to the nearest unit
Decay(c) == (c * DecayPct + 50) \div 100

\* mutant: the increment is not capped at 1.0
NewCongestionUncapped(o, c, e, p) ==
  IF o[e]
  THEN IF e \in used_edges(p) THEN c[e] + CongStep
       ELSE Max(Decay(c[e]), 0)
  ELSE c[e]

\* mutant: the pass does not look at the open flag
NewCongestionOfClosedToo(o, c, e, p) ==
  IF e \in used_edges(p) THEN Min(c[e] + CongStep, CongMax)
  ELSE Max(Decay(c[e]), 0)

\* the congestion level of edge e after one pass
NewCongestion(o, c, e, p) ==
  IF o[e]
  THEN IF e \in used_edges(p) THEN Min(c[e] + CongStep, CongMax)
       ELSE Max(Decay(c[e]), 0)
  ELSE c[e]

\* round(base_weight * fluctuation * (1 + congestion_level), 2), in hundredths
NewWeight(o, b, c, f, e) ==
  IF o[e] THEN (b[e] * f[e] * (CongMax + c[e]) + CongMax \div 2) \div CongMax
  ELSE Inf

update_traffic(p, f) ==
  LET c2 == [e \in Edges |-> NewCongestion(open, congestion_level, e, p)]
  IN /\ congestion_level' = c2
     /\ weight' = [e \in Edges |-> NewWeight(open, base_weight, c2, f, e)]
     /\ updates' = updates + 1
     /\ UNCHANGED <<base_weight, open>>

\* ------------------------------------------------------------------ inputs
\* base weights drawn by init_graph: the edges of Heavy get BaseMax, the
\* others BaseMin
HeavyCandidates == {<<"C", "E">>}
BaseChoices ==
  {[e \in Edges |-> IF e \in h THEN BaseMax ELSE BaseMin] :
     h \in SUBSET HeavyCandidates}

\* fluctuation factors drawn by one update_traffic pass
HighCandidates == {<<"A", "B">>}
Fluctuations ==
  {[e \in Edges |-> IF e \in h THEN FluctMax ELSE FluctMin] :
     h \in SUBSET HighCandidates}

\* the nodes the user picks in the selectboxes, the roads the user toggles
SourceChoices == {"A", "C"}
TargetChoices == {"B", "E"}
ToggleChoices == {<<"A", "B">>}

SteadyFluctuation == [e \in Edges |-> FluctMin]

\* ---------------------------------------------------------------- the run
\* line 150: path[vehicle_index] raises IndexError past the end of the path
RenderFails(p, i) == p # <<>> /\ i >= Len(p)

init_graph(b) ==
  /\ base_weight = b
  /\ weight = [e \in Edges |-> 0]
  /\ open = [e \in Edges |-> TRUE]
  /\ congestion_level = [e \in Edges |-> 0]

Init ==
  /\ \E b \in BaseChoices : init_graph(b)
  /\ source = "A"
  /\ target = "E"
  /\ vehicle_index = 0
  /\ path = get_shortest_path(weight, source, target).path
  /\ cost = get_shortest_path(weight, source, target).cost
  /\ crashed = FALSE
  /\ event = "view"
  /\ updates = 0
  /\ resets = 0

\* a run in which no button is pressed: plan, then render
PlainRun(s, t) ==
  LET r == get_shortest_path(weight, s, t)
  IN /\ path' = r.path
     /\ cost' = r.cost
     /\ crashed' = RenderFails(r.path, vehicle_index)
     /\ UNCHANGED <<base_weight, weight, congestion_level, vehicle_index,
                    updates>>

SelectSource(n) ==
  /\ n # source
  /\ event' = "view"
  /\ source' = n
  /\ PlainRun(n, target)
  /\ UNCHANGED <<target, open>>

SelectTarget(n) ==
  /\ n # target
  /\ event' = "view"
  /\ target' = n
  /\ PlainRun(source, n)
  /\ UNCHANGED <<source, open>>

ToggleEdge(e) ==
  /\ event' = "view"
  /\ open' = [open EXCEPT ![e] = ~@]
  /\ PlainRun(source, target)
  /\ UNCHANGED <<source, target>>

\* mutant: the advance is guarded by <= instead of <
MoveOffByOne(f) ==
  LET r == get_shortest_path(weight, source, target)
  IN /\ path' = r.path
     /\ cost' = r.cost
     /\ IF r.path # <<>> /\ vehicle_index <= Len(r.path) - 1
        THEN /\ vehicle_index' = vehicle_index + 1
             /\ update_traffic(r.path, f)
             /\ event' = "move"
        ELSE /\ UNCHANGED <<vehicle_index, graph, updates>>
             /\ event' = "stay"
     /\ crashed' = RenderFails(r.path, vehicle_index')
     /\ UNCHANGED <<source, target>>

Move(f) ==
  LET r == get_shortest_path(weight, source, target)
  IN /\ path' = r.path
     /\ cost' = r.cost
     /\ IF r.path # <<>> /\ vehicle_index < Len(r.path) - 1
        THEN /\ vehicle_index' = vehicle_index + 1
             /\ update_traffic(r.path, f)
             /\ event' = "move"
        ELSE /\ UNCHANGED <<vehicle_index, graph, updates>>
             /\ event' = "stay"
     /\ crashed' = RenderFails(r.path, vehicle_index')
     /\ UNCHANGED <<source, target>>

\* mutant: the reset passes the planned path instead of the empty one
ResetAlongPath(f) ==
  LET r == get_shortest_path(weight, source, target)
  IN /\ path' = r.path
     /\ cost' = r.cost
     /\ vehicle_index' = 0
     /\ update_traffic(r.path, f)
     /\ crashed' = FALSE
     /\ event' = "reset"
     /\ UNCHANGED <<source, target>>

Reset(f) ==
  LET r == get_shortest_path(weight, source, target)
  IN /\ path' = r.path
     /\ cost' = r.cost
     /\ vehicle_index' = 0
     /\ update_traffic(<<>>, f)
     /\ crashed' = FALSE
     /\ event' = "reset"
     /\ UNCHANGED <<source, target>>

\* the button is drawn after the figure; its handler ends in a rerun
Recalculate(f) ==
  LET r == get_shortest_path(weight, source, target)
  IN /\ ~crashed
     /\ IF RenderFails(r.path, vehicle_index)
        THEN /\ path' = r.path
             /\ cost' = r.cost
             /\ crashed' = TRUE
             /\ event' = "error"
             /\ UNCHANGED <<vehicle_index, graph, updates>>
        ELSE /\ update_traffic(r.path, f)
             /\ vehicle_index' = 0
             /\ path' = get_shortest_path(weight', source, target).path
             /\ cost' = get_shortest_path(weight', source, target).cost
             /\ crashed' = FALSE
             /\ event' = "recalculate"
     /\ UNCHANGED <<source, target>>

\* ----------------------------------------------------- the explored session
\* Spec: every widget, a few update passes
ChangeSource ==
  \E n \in SourceChoices : SelectSource(n) /\ UNCHANGED resets
ChangeTarget ==
  \E n \in TargetChoices : SelectTarget(n) /\ UNCHANGED resets
ToggleRoad ==
  \E e \in ToggleChoices : ToggleEdge(e) /\ UNCHANGED resets
MoveVehicle ==
  \E f \in Fluctuations : updates < MaxUpdates /\ Move(f) /\ UNCHANGED resets
ResetVehicle ==
  \E f \in Fluctuations : updates < MaxUpdates /\ Reset(f) /\ UNCHANGED resets
RecalculateTraffic ==
  \E f \in Fluctuations :
    updates < MaxUpdates /\ Recalculate(f) /\ UNCHANGED resets

Next ==
  \/ ChangeSource
  \/ ChangeTarget
  \/ ToggleRoad
  \/ MoveVehicle
  \/ ResetVehicle
  \/ RecalculateTraffic

Spec == Init /\ [][Next]_vars

\* SpecLong: a long drive.  The target is picked before the first update
\* pass, the fluctuation is steady, and the buttons are pressed many times.
PickTargetLong ==
  \E n \in TargetChoices : updates = 0 /\ SelectTarget(n) /\ UNCHANGED resets
MoveVehicleLong ==
  updates < MaxLongUpdates /\ Move(SteadyFluctuation) /\ UNCHANGED resets
ResetVehicleLong ==
  /\ updates < MaxLongUpdates
  /\ resets < MaxLongResets
  /\ Reset(SteadyFluctuation)
  /\ resets' = resets + 1
RecalculateTrafficLong ==
  updates < MaxLongUpdates /\ Recalculate(SteadyFluctuation) /\ UNCHANGED resets

NextLong ==
  \/ PickTargetLong
  \/ MoveVehicleLong
  \/ ResetVehicleLong
  \/ RecalculateTrafficLong

SpecLong == Init /\ [][NextLong]_vars

\* ------------------------------------------------------------- properties
\* the simple paths of the graph, whatever the weights and the open flags
RECURSIVE Routes(_, _)
Routes(P, n) ==
  IF n = 0 THEN P
  ELSE Routes(P \cup {Append(x[1], x[2][2]) :
                        x \in {y \in P \X Edges :
                                 /\ y[2][1] = y[1][Len(y[1])]
                                 /\ \A i \in DOMAIN y[1] : y[1][i] # y[2][2]}},
              n - 1)

AllSimplePaths == Routes({<<n>> : n \in Nodes}, Cardinality(Nodes) - 1)

SimplePaths(s, t) == {p \in AllSimplePaths : p[1] = s /\ p[Len(p)] = t}

\* the sum of the weights w along p, added from the source on
RECURSIVE PathSum(_, _)
PathSum(w, p) ==
  IF Len(p) < 2 THEN 0
  ELSE Add(PathSum(w, SubSeq(p, 1, Len(p) - 1)), w[<<p[Len(p) - 1], p[Len(p)]>>])

\* t can be reached from s over roads whose open flag is true
ReachableOpen(s, t) ==
  \E p \in SimplePaths(s, t) :
    \A i \in 1..(Len(p) - 1) : open[<<p[i], p[i + 1]>>]

\* the path the run that starts in this state plans
Planned == get_shortest_path(weight, source, target)

\* C1: every congestion level lies in [0.0, 1.0] in every reachable state.
CongestionBounded ==
  \A e \in Edges : 0 <= congestion_level[e] /\ congestion_level[e] <= CongMax

\* C1 witness: a road that stays at the cap after more increments than the
\* cap has room for
CapReached ==
  /\ updates > CongMax \div CongStep
  /\ \E e \in Edges : congestion_level[e] = CongMax

\* C2: a road whose open flag is false has weight +infinity whenever the
\* planner or the renderer reads the graph.
ClosedEdgeInfinite ==
  \A e \in Edges : ~open[e] => weight[e] = Inf

\* C3: the planner returns (empty, +infinity) exactly when the target cannot
\* be reached from the source over open roads.
NoPathIffUnreachableOpen ==
  \A s, t \in Nodes :
    LET r == get_shortest_path(weight, s, t)
    IN (r.path = <<>> /\ r.cost = Inf) <=> ~ReachableOpen(s, t)

\* C4: a returned non-empty path runs over edges of the graph from the source
\* to the target, its cost is the sum of the current weights along it, and no
\* simple path between the two nodes has a smaller sum.
PlannerOptimal ==
  \A s, t \in Nodes :
    LET r == get_shortest_path(weight, s, t)
    IN r.path # <<>> =>
         /\ r.path \in SimplePaths(s, t)
         /\ r.cost = PathSum(weight, r.path)
         /\ \A q \in SimplePaths(s, t) : r.cost <= PathSum(weight, q)

\* C4 witness: the planner prefers a longer route of finite cost over a route
\* with fewer roads and a larger sum
LongerRouteChosen ==
  /\ Planned.path # <<>>
  /\ Planned.cost < Inf
  /\ \E q \in SimplePaths(source, target) :
       Len(q) < Len(Planned.path) /\ PathSum(weight, q) > Planned.cost

\* C5: the cursor is a valid index into every non-empty path that a run
\* shows.
CursorValid ==
  path # <<>> => (0 <= vehicle_index /\ vehicle_index <= Len(path) - 1)

\* C6: Move Vehicle with an empty path or with the cursor on the last node
\* changes neither the cursor nor any edge, and makes no update pass.
MoveAtEndIsNoOp ==
  [][(/\ event' \in {"move", "stay"}
      /\ (Planned.path = <<>> \/ vehicle_index = Len(Planned.path) - 1))
       => UNCHANGED <<vehicle_index, base_weight, weight, open,
                      congestion_level, updates>>]_vars

\* C6 witness: Move Vehicle was pressed on the last node of a path that an
\* earlier advance had congested
StayedAtEnd ==
  /\ event = "stay"
  /\ path # <<>>
  /\ vehicle_index = Len(path) - 1
  /\ vehicle_index > 0
  /\ updates > 0

\* C6 witness for the other case is part of the same run: no path at all
StayedWithoutPath == event = "stay" /\ path = <<>>

\* C7: Reset Vehicle sets the cursor to 0 and makes exactly one update pass
\* with an empty traveled path: every open road decays by the factor 0.95
\* (never up, never below 0), no road gets the increment.
ResetDecaysAll ==
  [][event' = "reset" =>
       /\ vehicle_index' = 0
       /\ updates' = updates + 1
       /\ \A e \in Edges :
            IF open[e]
            THEN /\ congestion_level'[e] <= congestion_level[e]
                 /\ congestion_level'[e] >= 0
                 /\ 100 * congestion_level'[e] - DecayPct * congestion_level[e]
                      \in -50..50
            ELSE congestion_level'[e] = congestion_level[e]]_vars

\* C7 witness: a reset after an advance, with a road below one increment
ResetAfterAdvance ==
  /\ event = "reset"
  /\ vehicle_index = 0
  /\ \E e \in Edges : 0 < congestion_level[e] /\ congestion_level[e] < CongStep

\* C8: one update pass sets the congestion of an open road on the traveled
\* path to min(old + 0.05, 1.0), of an open road off it to max(old * 0.95, 0)
\* and leaves a closed road's alone; base weights and open flags stay.
UpdateRule ==
  [][updates' # updates =>
       LET p == IF event' = "reset" THEN <<>> ELSE Planned.path
           onPath(e) == \E i \in 1..(Len(p) - 1) : p[i] = e[1] /\ p[i + 1] = e[2]
       IN /\ \A e \in Edges :
               congestion_level'[e] =
                 IF ~open[e] THEN congestion_level[e]
                 ELSE IF onPath(e)
                 THEN (IF congestion_level[e] + CongStep > CongMax THEN CongMax
                       ELSE congestion_level[e] + CongStep)
                 ELSE (congestion_level[e] * DecayPct + 50) \div 100
          /\ base_weight' = base_weight
          /\ open' = open]_vars

\* C8 witness: a pass over a path with a closed road on it, next to open
\* roads that took the increment or decayed
UpdatePassedClosedRoad ==
  /\ event \in {"move", "recalculate"}
  /\ \E e \in Edges : ~open[e] /\ weight[e] = Inf
  /\ \E e \in Edges : open[e] /\ congestion_level[e] >= CongStep
  /\ \E e \in Edges :
       open[e] /\ 0 < congestion_level[e] /\ congestion_level[e] < CongStep

\* C9: the weight of every open road lies between base_weight * 0.9 *
\* (1 + congestion_level) and base_weight * 1.2 * (1 + congestion_level), up
\* to the rounding to two decimals.
WeightDerived ==
  \A e \in Edges :
    open[e] =>
      /\ weight[e] # Inf
      /\ (weight[e] + 1) * CongMax
           >= base_weight[e] * FluctMin * (CongMax + congestion_level[e])
      /\ (weight[e] - 1) * CongMax
           <= base_weight[e] * FluctMax * (CongMax + congestion_level[e])

\* C10: the path and the cost a run shows after a successful Move Vehicle
\* are planned on the weights update_traffic has just set.
MoveShowsReplannedPath ==
  [][event' = "move" =>
       /\ path' = get_shortest_path(weight', source', target').path
       /\ cost' = get_shortest_path(weight', source', target').cost]_vars

====
